---- MODULE Spec2Model ----
(***************************************************************************)
(* OneRunComfyUI.py as a state machine.  The script is one sequential      *)
(* thread; its state is the filesystem it reads and writes, the process's  *)
(* working directory, the locals of the function it is in (pc is its       *)
(* position) and the machine it runs on (which tools the system has).      *)
(* Every network request, subprocess and file removal has the outcomes the *)
(* environment can give it, drawn with \E.  The script can be run again    *)
(* on the filesystem an earlier run left behind (Rerun).                   *)
(***************************************************************************)
EXTENDS Integers, Sequences, FiniteSets, TLC

\* ------------------------------------------------------------------ bounds
MaxUrls == 2
MaxModels == 2

\* ------------------------------------------------------- program constants
MinArchiveSize == 1048576

\* --------------------------------------------------------------- the paths
P_root == "ComfyUI_windows_portable"
P_curl == "curl.exe"
P_curlzip == "curl-8.15.0_4-win64-mingw.zip"
P_curldir == "curl-8.15.0_4-win64-mingw"
P_7z == "7zr.exe"
P_archive == "ComfyUI_windows_portable.7z"
P_gitinst == "PortableGit-64-bit.7z.exe"
P_gitdir == "git_portable"
P_gitexe == "git_portable/bin/git.exe"
custom_nodes_dir == "ComfyUI_windows_portable/ComfyUI/custom_nodes"
checkpoints_dir == "ComfyUI_windows_portable/ComfyUI/models/checkpoints"
upscale_dir == "ComfyUI_windows_portable/ComfyUI/models/upscale_models"
LiteralDir == "my_models"
\* A directory of the user's in the working directory, with "curl" in its name.
P_userdir == "my-curl-scripts"

Paths ==
    {P_root, P_curl, P_curlzip, P_curldir, P_7z, P_archive, P_gitinst, P_gitdir,
     P_gitexe, custom_nodes_dir, checkpoints_dir, upscale_dir, LiteralDir, P_userdir}

\* A path is absent, complete ("ok"), or the incomplete leftover of an
\* interrupted write ("partial").  os.path.exists is true of the last two.
Status == {"absent", "partial", "ok"}
Exists(st) == st # "absent"

\* ----------------------------------------------------------- configuration
\* A URL is the sequence of its '/'-separated segments, a segment a sequence
\* of tokens; ".git" is the token str.replace looks for.
Url_Manager == << <<"https:">>, <<>>, <<"github.com">>, <<"ltdrdata">>, <<"ComfyUI-Manager">> >>
Url_NodesGit ==
    << <<"https:">>, <<>>, <<"github.com">>, <<"acme">>, <<"my", ".git", "hub-nodes", ".git">> >>
Url_Slash == << <<"https:">>, <<>>, <<"github.com">>, <<"acme">>, <<"pack">>, <<>> >>
ConfiguredUrls == <<Url_Manager, Url_NodesGit, Url_Slash>>

\* The entries of s at the positions in keep, in s's order.
RECURSIVE Pick(_, _, _)
Pick(s, keep, k) ==
    IF k > Len(s) THEN <<>>
    ELSE (IF k \in keep THEN <<s[k]>> ELSE <<>>) \o Pick(s, keep, k + 1)

SubLists(s, n) == {Pick(s, keep, 1) : keep \in {K \in SUBSET (1..Len(s)) : Cardinality(K) <= n}}

\* The lists main can be edited to hold: up to MaxUrls of the entries.
UrlLists == SubLists(ConfiguredUrls, MaxUrls)

Filenames == {"f.bin"}
ConfiguredModels ==
    << [filename |-> "f.bin", directory |-> "checkpoints_dir"],
       [filename |-> "f.bin", directory |-> LiteralDir],
       [filename |-> "f.bin", directory |-> "upscale_dir"] >>
ModelLists == SubLists(ConfiguredModels, MaxModels)
AssetDirs == {checkpoints_dir, upscale_dir, LiteralDir}

\* ------------------------------------------------------------------- state
VARIABLES
    faulty,                     \* the stage whose network, subprocesses and removals can fail
    custom_nodes_git_urls,      \* main's repository list
    models,                     \* main's asset list
    chosen,                     \* which of the two lists are fixed so far
    fs,                         \* Paths -> Status
    repos,                      \* names of the directories under custom_nodes
    files,                      \* AssetDirs \X Filenames -> Status
    cwd,                        \* the process's working directory
    pc,                         \* position of the script
    curl_exe, zip_exe, git_exe, \* install_comfyui's / download_custom_nodes's locals
    original_dir,               \* download_custom_nodes's saved directory
    idx,                        \* loop position in the stage that is running
    success_count,
    archiveSize,                \* os.path.getsize of the downloaded archive
    installResult, cnResult, mdResult, \* what each stage returned to main
    exitCode,                   \* -1 while running, then 0 or 1
    events,                     \* history: operations executed in the stage that is running
    origin,                     \* history: where the stage's resolved tools came from
    created,                    \* history: transient files install_comfyui wrote in this run
    rmFailed,                   \* history: paths whose removal raised in the stage that is running
    outcomes,                   \* history: per clone-loop iteration, the URL and what happened
    lastDl,                     \* history: the last download_file call
    gitProbe,                   \* history: what this run's probe for the system's git found
    prev                        \* history: how the previous run ended

cfgVars == <<faulty, custom_nodes_git_urls, models, chosen>>
diskVars == <<fs, repos, files>>
installLocals == <<curl_exe, zip_exe, archiveSize>>
cnLocals == <<git_exe, original_dir>>
loopVars == <<idx, success_count, outcomes>>
resultVars == <<installResult, cnResult, mdResult, exitCode>>
histVars == <<origin, created, rmFailed, lastDl, gitProbe, prev>>
vars == <<cfgVars, diskVars, cwd, pc, installLocals, cnLocals, loopVars,
          resultVars, events, histVars>>

NoDl == [existed |-> FALSE, net |-> 0, ok |-> FALSE, retrieved |-> FALSE,
         changed |-> FALSE, path |-> "none"]
NoOrigin == [curl |-> "none", zip |-> "none", git |-> "none",
             curlSystem |-> FALSE, zipSystem |-> FALSE, gitSystem |-> FALSE,
             curlCached |-> FALSE, zipCached |-> FALSE, gitCached |-> FALSE]

Stages == {"install", "custom_nodes", "models"}

Init ==
    /\ faulty \in Stages
    /\ custom_nodes_git_urls = <<>> /\ models = <<>> /\ chosen = {}
    /\ \E u \in {"absent", "ok"} :
         fs = [p \in Paths |-> IF p = P_userdir THEN u ELSE "absent"]
    /\ repos = {}
    /\ files = [k \in AssetDirs \X Filenames |-> "absent"]
    /\ cwd = "start_dir"
    /\ pc = "main"
    /\ curl_exe = "none" /\ zip_exe = "none" /\ git_exe = "none"
    /\ original_dir = "none"
    /\ idx = 0 /\ success_count = 0 /\ outcomes = <<>>
    /\ archiveSize = 0
    /\ installResult = "none" /\ cnResult = "none" /\ mdResult = "none"
    /\ exitCode = -1
    /\ events = {}
    /\ origin = NoOrigin
    /\ created = {} /\ rmFailed = {}
    /\ lastDl = NoDl
    /\ gitProbe = "none"
    /\ prev = "none"

\* ----------------------------------------------------------------- helpers
\* download_file (lines 33-45) on the status st of its destination.  dirOk:
\* the destination's directory exists.  outcome: what urlretrieve does when
\* it is called: "ok", "error" (nothing written) or "interrupted" (it raised
\* after writing part of the file, which stays on disk).
DownloadOutcomes == {"ok", "error", "interrupted"}

\* The outcomes an operation of a stage can have: all of them in the stage
\* that is faulty, the good ones elsewhere.
Outcomes(stage, all, good) == IF faulty = stage THEN all ELSE good

DownloadFile_NoExistenceCheck(st, dirOk, outcome) ==
    IF ~dirOk THEN [ok |-> FALSE, st |-> st, net |-> 1]
    ELSE IF outcome = "ok" THEN [ok |-> TRUE, st |-> "ok", net |-> 1]
    ELSE IF outcome = "interrupted" THEN [ok |-> FALSE, st |-> "partial", net |-> 1]
    ELSE [ok |-> FALSE, st |-> st, net |-> 1]

DownloadFile(st, dirOk, outcome) ==
    IF Exists(st) THEN [ok |-> TRUE, st |-> st, net |-> 0]
    ELSE IF ~dirOk THEN [ok |-> FALSE, st |-> st, net |-> 1]
    ELSE IF outcome = "ok" THEN [ok |-> TRUE, st |-> "ok", net |-> 1]
    ELSE IF outcome = "interrupted" THEN [ok |-> FALSE, st |-> "partial", net |-> 1]
    ELSE [ok |-> FALSE, st |-> st, net |-> 1]

\* The history record of one download_file call: st the status before, r
\* what DownloadFile returned.
DlRecord(path, st, dirOk, outcome, r) ==
    [existed |-> Exists(st), net |-> r.net, ok |-> r.ok,
     retrieved |-> (dirOk /\ outcome = "ok"), changed |-> (r.st # st), path |-> path]

\* The os.remove / shutil.rmtree calls of one try block, in order from the
\* k-th.  An entry is guarded when the code tests os.path.exists first.  The
\* call at position failAt raises (0: none does), and so does an unguarded
\* removal of a path that is not there; the rest of the block is skipped.
\* raised: the path whose removal raised, if one did.
RECURSIVE RemoveSeq(_, _, _, _)
RemoveSeq(f, ps, k, failAt) ==
    IF k > Len(ps) THEN [fs |-> f, raised |-> {}]
    ELSE LET e == ps[k] IN
         IF e.guarded /\ ~Exists(f[e.path]) THEN RemoveSeq(f, ps, k + 1, failAt)
         ELSE IF k = failAt \/ ~Exists(f[e.path]) THEN [fs |-> f, raised |-> {e.path}]
         ELSE RemoveSeq([f EXCEPT ![e.path] = "absent"], ps, k + 1, failAt)

G(p) == [path |-> p, guarded |-> TRUE]
U(p) == [path |-> p, guarded |-> FALSE]

\* install_comfyui's except block.
HandlerCleanup == <<G(P_7z), G(P_curl)>>
\* install_comfyui's clean-up after a successful extraction.
SuccessCleanup == <<U(P_archive), U(P_7z), G(P_curl)>>
\* setup_curl's clean-up: the zip, then every directory os.listdir gives
\* whose name contains "curl", in either order.
CurlCleanup == <<U(P_curlzip), U(P_curldir), G(P_userdir)>>
CurlCleanupOrders == {CurlCleanup, <<U(P_curlzip), G(P_userdir), U(P_curldir)>>}

\* setup_curl's order: the system's curl, else curl.exe in the current
\* directory, else a download.
SetupCurlChoice_CacheFirst(systemOk, cacheExists) ==
    IF cacheExists THEN "cached" ELSE IF systemOk THEN "system" ELSE "fresh"

SetupCurlChoice(systemOk, cacheExists) ==
    IF systemOk THEN "system" ELSE IF cacheExists THEN "cached" ELSE "fresh"

\* setup_git's order.
SetupGitChoice(systemOk, cacheExists) ==
    IF systemOk THEN "system" ELSE IF cacheExists THEN "cached" ELSE "fresh"

\* The size test of install_comfyui.
TooSmall_OffByOne(size) == size < MinArchiveSize - 1

TooSmall(size) == size < MinArchiveSize

ArchiveSizes == {MinArchiveSize - 1, MinArchiveSize}

\* main after install_comfyui returned ok: go on, or sys.exit(1).
AfterInstall_NeverExit(ok) == "download_custom_nodes"

AfterInstall(ok) == IF ok THEN "download_custom_nodes" ELSE "exit"

\* main after download_custom_nodes returned ok: a warning at most.
AfterCustomNodes_Fatal(ok) == IF ok THEN "download_models" ELSE "exit"

AfterCustomNodes_SkipModels(ok) == IF ok THEN "download_models" ELSE "done"

AfterCustomNodes(ok) == "download_models"

\* main after download_models returned ok: a warning at most, then the end.
AfterModels(ok) == "done"

Log(new) == events' = events \cup new

InstallReturn(ok) ==
    /\ installResult' = (IF ok THEN "ok" ELSE "fail")
    /\ pc' = AfterInstall(ok)
    /\ exitCode' = (IF AfterInstall(ok) = "exit" THEN 1 ELSE exitCode)
    /\ UNCHANGED <<cnResult, mdResult>>

\* ------------------------------------------------- install_comfyui (189-265)
\* The test of line 190 on the status of the installation root.
AlreadyInstalled_Never(st) == FALSE

AlreadyInstalled(st) == Exists(st)

InstallCheck ==
    /\ pc = "main"
    /\ IF AlreadyInstalled(fs[P_root])
         THEN /\ InstallReturn(TRUE)
              /\ Log({"install_skipped"})
         ELSE /\ pc' = "setup_curl"
              /\ Log({"install_entered"})
              /\ UNCHANGED resultVars
    /\ UNCHANGED <<cfgVars, diskVars, cwd, installLocals, cnLocals, loopVars,
                   histVars>>

\* setup_curl up to its download (56-76).  systemCurl: 'curl --version' ran
\* and exited zero.
SetupCurlProbe ==
    /\ pc = "setup_curl"
    /\ \E systemCurl \in BOOLEAN :
       LET c == SetupCurlChoice(systemCurl, Exists(fs[P_curl])) IN
       /\ origin' = [origin EXCEPT !.curl = c, !.curlSystem = systemCurl,
                                   !.curlCached = Exists(fs[P_curl])]
       /\ curl_exe' = (IF c = "system" THEN "curl" ELSE IF c = "cached" THEN P_curl ELSE "none")
       /\ pc' = (IF c = "fresh" THEN "curl_download" ELSE "download_7zip")
    /\ Log({"curl_probe"})
    /\ UNCHANGED <<cfgVars, diskVars, cwd, zip_exe, archiveSize, cnLocals,
                   loopVars, resultVars, created, rmFailed, lastDl, gitProbe, prev>>

\* setup_curl's download of the zip (77-79); a failure is install_comfyui's
\* "Failed to setup curl" (198-200).
SetupCurlDownload ==
    /\ pc = "curl_download"
    /\ \E o \in Outcomes("install", DownloadOutcomes, {"ok"}) :
         LET r == DownloadFile(fs[P_curlzip], TRUE, o) IN
         /\ fs' = [fs EXCEPT ![P_curlzip] = r.st]
         /\ lastDl' = DlRecord(P_curlzip, fs[P_curlzip], TRUE, o, r)
         /\ Log(IF r.net > 0 THEN {"net_curl"} ELSE {})
         /\ IF r.ok THEN pc' = "curl_extract" /\ UNCHANGED resultVars
                    ELSE InstallReturn(FALSE)
    /\ UNCHANGED <<cfgVars, repos, files, cwd, installLocals, cnLocals, loopVars,
                   origin, created, rmFailed, gitProbe, prev>>

\* setup_curl's extraction, move and clean-up (81-116).  A zip that is the
\* leftover of an interrupted download cannot be opened.
SetupCurlExtract ==
    /\ pc = "curl_extract"
    /\ \E x \in Outcomes("install", {"ok", "error"}, {"ok"}),
          failAt \in Outcomes("install", 0..Len(CurlCleanup), {0}),
          order \in CurlCleanupOrders :
         /\ fs[P_curlzip] = "partial" => x = "error"
         /\ x = "error" => failAt = 0
         /\ IF x = "ok"
              THEN LET moved == [fs EXCEPT ![P_curldir] = "ok", ![P_curl] = "ok"]
                       c == RemoveSeq(moved, order, 1, failAt)
                   IN  /\ fs' = c.fs
                       /\ curl_exe' = P_curl
                       /\ created' = created \cup {P_curl}
                       /\ rmFailed' = rmFailed \cup c.raised
                       /\ pc' = "download_7zip"
                       /\ UNCHANGED resultVars
              ELSE /\ InstallReturn(FALSE)
                   /\ UNCHANGED <<fs, curl_exe, created, rmFailed>>
    /\ Log({"extract_curl"})
    /\ UNCHANGED <<cfgVars, repos, files, cwd, zip_exe, archiveSize, cnLocals,
                   loopVars, origin, lastDl, gitProbe, prev>>

\* download_7zip (47-54) and install_comfyui's test of its result (203-206).
\* system7z: the machine has a 7-Zip of its own, which the code never asks.
Download7zip ==
    /\ pc = "download_7zip"
    /\ \E o \in Outcomes("install", DownloadOutcomes, {"ok"}), system7z \in BOOLEAN :
         LET r == DownloadFile(fs[P_7z], TRUE, o) IN
         /\ fs' = [fs EXCEPT ![P_7z] = r.st]
         /\ lastDl' = DlRecord(P_7z, fs[P_7z], TRUE, o, r)
         /\ Log(IF r.net > 0 THEN {"net_7zip"} ELSE {})
         /\ created' = created \cup (IF r.st # fs[P_7z] THEN {P_7z} ELSE {})
         /\ origin' = [origin EXCEPT !.zip = (IF ~r.ok THEN "failed"
                                              ELSE IF r.net = 0 THEN "cached" ELSE "fresh"),
                                     !.zipCached = Exists(fs[P_7z]),
                                     !.zipSystem = system7z]
         /\ IF r.ok THEN /\ zip_exe' = P_7z
                         /\ pc' = "get_release"
                         /\ UNCHANGED resultVars
                    ELSE /\ InstallReturn(FALSE)
                         /\ UNCHANGED zip_exe
    /\ UNCHANGED <<cfgVars, repos, files, cwd, curl_exe, archiveSize, cnLocals,
                   loopVars, rmFailed, gitProbe, prev>>

\* The release-metadata query and the choice of the first '.7z' asset
\* (208-227): the request raises, the release has no such asset, or it has.
GetRelease ==
    /\ pc = "get_release"
    /\ \E a \in Outcomes("install", {"error", "no_asset", "ok"}, {"ok"}),
          failAt \in Outcomes("install", 0..Len(HandlerCleanup), {0}) :
         /\ a # "error" => failAt = 0
         /\ IF a = "ok" THEN /\ pc' = "download_archive"
                             /\ UNCHANGED <<fs, rmFailed, resultVars>>
            ELSE IF a = "no_asset"
                 THEN /\ InstallReturn(FALSE)
                      /\ UNCHANGED <<fs, rmFailed>>
            ELSE LET c == RemoveSeq(fs, HandlerCleanup, 1, failAt) IN
                 /\ fs' = c.fs
                 /\ rmFailed' = rmFailed \cup c.raised
                 /\ InstallReturn(FALSE)
    /\ Log({"net_release"})
    /\ UNCHANGED <<cfgVars, repos, files, cwd, installLocals, cnLocals, loopVars,
                   origin, created, lastDl, gitProbe, prev>>

\* The curl subprocess and the size test (229-238).  curl exits non-zero
\* having written nothing ("failed") or part of the file ("interrupted"), or
\* exits zero having written size bytes.  A curl.exe that is itself the
\* leftover of an interrupted write does not run.
DownloadArchive ==
    /\ pc = "download_archive"
    /\ \E o \in Outcomes("install", {"failed", "interrupted", "done"}, {"done"}),
          size \in Outcomes("install", ArchiveSizes, {MinArchiveSize}),
          rmOk \in Outcomes("install", BOOLEAN, {TRUE}),
          failAt \in Outcomes("install", 0..Len(HandlerCleanup), {0}) :
         /\ (curl_exe = P_curl /\ fs[P_curl] # "ok") => o = "failed"
         /\ o # "done" => (size = MinArchiveSize /\ rmOk)
         /\ (o = "done" /\ ~TooSmall(size)) => rmOk
         /\ (o = "done" /\ rmOk) => failAt = 0
         /\ LET written == IF o = "done" THEN [fs EXCEPT ![P_archive] = "ok"]
                           ELSE IF o = "interrupted" THEN [fs EXCEPT ![P_archive] = "partial"]
                           ELSE fs
                handled == RemoveSeq(written, HandlerCleanup, 1, failAt)
            IN  /\ created' = created \cup (IF o = "failed" THEN {} ELSE {P_archive})
                /\ archiveSize' = (IF o = "done" THEN size ELSE archiveSize)
                /\ IF o # "done"
                     THEN \* subprocess.CalledProcessError: the except block
                          /\ fs' = handled.fs
                          /\ rmFailed' = rmFailed \cup handled.raised
                          /\ InstallReturn(FALSE)
                   ELSE IF TooSmall(size)
                     THEN IF rmOk
                            THEN /\ fs' = [written EXCEPT ![P_archive] = "absent"]
                                 /\ UNCHANGED <<rmFailed>>
                                 /\ InstallReturn(FALSE)
                            ELSE \* os.remove raised: the except block
                                 /\ fs' = handled.fs
                                 /\ rmFailed' = rmFailed \cup {P_archive} \cup handled.raised
                                 /\ InstallReturn(FALSE)
                   ELSE /\ fs' = written
                        /\ pc' = "extract_archive"
                        /\ UNCHANGED <<rmFailed, resultVars>>
    /\ Log({"net_archive"})
    /\ UNCHANGED <<cfgVars, repos, files, cwd, curl_exe, zip_exe, cnLocals,
                   loopVars, origin, lastDl, gitProbe, prev>>

\* The 7zr subprocess and what follows it (240-265).  It unpacks the root
\* ("ok"), or exits non-zero having written nothing ("failed") or a part of
\* the tree ("interrupted").  A 7zr.exe that is the leftover of an
\* interrupted download does not run.
ExtractArchive ==
    /\ pc = "extract_archive"
    /\ \E x \in Outcomes("install", {"ok", "failed", "interrupted"}, {"ok"}),
          failAt \in Outcomes("install", 0..Len(SuccessCleanup), {0}) :
         /\ fs[P_7z] # "ok" => x = "failed"
         /\ x # "ok" => failAt <= Len(HandlerCleanup)
         /\ LET unpacked == IF x = "ok" THEN [fs EXCEPT ![P_root] = "ok"]
                            ELSE IF x = "interrupted" THEN [fs EXCEPT ![P_root] = "partial"]
                            ELSE fs
                c == IF x = "ok" THEN RemoveSeq(unpacked, SuccessCleanup, 1, failAt)
                     ELSE RemoveSeq(unpacked, HandlerCleanup, 1, failAt)
            IN  /\ fs' = c.fs
                /\ rmFailed' = rmFailed \cup c.raised
                /\ InstallReturn(x = "ok")
    /\ Log({"extract_archive"})
    /\ UNCHANGED <<cfgVars, repos, files, cwd, installLocals, cnLocals, loopVars,
                   origin, created, lastDl, gitProbe, prev>>

\* ------------------------------------------- download_custom_nodes (268-332)
\* str.replace: seg without any occurrence of tok.
RECURSIVE Replace(_, _)
Replace(seg, tok) ==
    IF seg = <<>> THEN <<>>
    ELSE IF Head(seg) = tok THEN Replace(Tail(seg), tok)
    ELSE <<Head(seg)>> \o Replace(Tail(seg), tok)

\* repo_name = url.split('/')[-1].replace('.git', '')
RepoName(url) == Replace(url[Len(url)], ".git")

\* os.path.exists(os.path.join(custom_nodes_dir, name)); joining the empty
\* name gives the directory itself.
RepoExists(f, rs, name) ==
    IF name = <<>> THEN Exists(f[custom_nodes_dir]) ELSE name \in rs

\* The working directory after the git subprocess: the try body's chdir
\* after a clone, the except blocks' chdir otherwise.
CwdAfterClone_ErrorNotRestored(outcome, here, original) ==
    IF outcome = "error" THEN here ELSE original

CwdAfterClone(outcome, here, original) == original

\* success_count after one iteration.
SuccessCountAfter_CountsFailures(outcome, count) == count + 1

SuccessCountAfter(outcome, count) ==
    IF outcome \in {"exists", "cloned"} THEN count + 1 ELSE count

\* The next loop position after one iteration over n URLs.
NextIndex_StopOnFailure(outcome, i, n) ==
    IF outcome \in {"git_failed", "error"} THEN n + 1 ELSE i + 1

NextIndex(outcome, i, n) == i + 1

CustomNodesReturn(ok) ==
    /\ cnResult' = (IF ok THEN "ok" ELSE "fail")
    /\ pc' = AfterCustomNodes(ok)
    /\ exitCode' = (IF AfterCustomNodes(ok) = "exit" THEN 1 ELSE exitCode)
    /\ UNCHANGED <<installResult, mdResult>>

EnterCloneLoop ==
    /\ original_dir' = cwd
    /\ idx' = 1 /\ success_count' = 0 /\ outcomes' = <<>>
    /\ pc' = "clone_loop"
    /\ UNCHANGED resultVars

\* main's list (375-378) and the stage's first lines (268-274).
DownloadCustomNodesStart ==
    /\ pc = "download_custom_nodes"
    /\ IF "urls" \in chosen THEN UNCHANGED custom_nodes_git_urls
                            ELSE custom_nodes_git_urls' \in UrlLists
    /\ chosen' = chosen \cup {"urls"}
    /\ fs' = [fs EXCEPT ![custom_nodes_dir] = "ok",
                        ![P_root] = IF Exists(@) THEN @ ELSE "partial"]
    /\ pc' = "setup_git"
    /\ events' = ({"cn_mkdir"})
    \* install_comfyui's locals are gone, and its history with them
    /\ curl_exe' = "none" /\ zip_exe' = "none" /\ archiveSize' = 0
    /\ origin' = NoOrigin /\ created' = {} /\ rmFailed' = {} /\ lastDl' = NoDl
    /\ UNCHANGED <<faulty, models, repos, files, cwd, cnLocals, loopVars, resultVars,
                   gitProbe, prev>>

\* setup_git up to its download (118-135).  systemGit: 'git --version' ran
\* and exited zero.
SetupGitProbe ==
    /\ pc = "setup_git"
    /\ \E systemGit \in BOOLEAN :
       LET c == SetupGitChoice(systemGit, Exists(fs[P_gitexe])) IN
       /\ origin' = [origin EXCEPT !.git = c, !.gitSystem = systemGit,
                                   !.gitCached = Exists(fs[P_gitexe])]
       /\ gitProbe' = (IF systemGit THEN "system" ELSE "no_system")
       /\ IF c = "fresh"
            THEN /\ pc' = "git_release"
                 /\ UNCHANGED <<git_exe, original_dir, loopVars, resultVars>>
            ELSE /\ git_exe' = (IF c = "system" THEN "git" ELSE P_gitexe)
                 /\ EnterCloneLoop
    /\ Log({"git_probe"})
    /\ UNCHANGED <<cfgVars, diskVars, cwd, installLocals, created, rmFailed, lastDl, prev>>

\* setup_git's release query and asset choice (137-158).
GitRelease ==
    /\ pc = "git_release"
    /\ \E a \in Outcomes("custom_nodes", {"error", "no_asset", "ok"}, {"ok"}) :
         IF a = "ok" THEN pc' = "git_download" /\ UNCHANGED resultVars
                     ELSE CustomNodesReturn(FALSE)
    /\ Log({"net_git_release"})
    /\ UNCHANGED <<cfgVars, diskVars, cwd, installLocals, cnLocals, loopVars,
                   histVars>>

\* setup_git's download of the installer (160-162).
GitDownload ==
    /\ pc = "git_download"
    /\ \E o \in Outcomes("custom_nodes", DownloadOutcomes, {"ok"}) :
         LET r == DownloadFile(fs[P_gitinst], TRUE, o) IN
         /\ fs' = [fs EXCEPT ![P_gitinst] = r.st]
         /\ lastDl' = DlRecord(P_gitinst, fs[P_gitinst], TRUE, o, r)
         /\ Log(IF r.net > 0 THEN {"net_git"} ELSE {})
         /\ IF r.ok THEN pc' = "git_extract" /\ UNCHANGED resultVars
                    ELSE CustomNodesReturn(FALSE)
    /\ UNCHANGED <<cfgVars, repos, files, cwd, installLocals, cnLocals, loopVars,
                   origin, created, rmFailed, gitProbe, prev>>

\* setup_git's self-extraction and what follows (164-187).  The installer
\* unpacks git_portable with git.exe ("ok") or without it ("no_git"), or
\* exits non-zero having written nothing ("failed") or a part of the tree
\* ("interrupted").  An installer that is the leftover of an interrupted
\* download does not run.
GitExtract ==
    /\ pc = "git_extract"
    /\ \E x \in Outcomes("custom_nodes", {"ok", "no_git", "failed", "interrupted"}, {"ok"}),
          rmOk \in Outcomes("custom_nodes", BOOLEAN, {TRUE}) :
         /\ fs[P_gitinst] # "ok" => x = "failed"
         /\ x # "ok" => rmOk
         /\ IF x = "ok"
              THEN /\ fs' = [fs EXCEPT ![P_gitdir] = "ok", ![P_gitexe] = "ok",
                                       ![P_gitinst] = IF rmOk THEN "absent" ELSE @]
                   /\ git_exe' = P_gitexe
                   /\ EnterCloneLoop
              ELSE /\ fs' = IF x = "no_git" THEN [fs EXCEPT ![P_gitdir] = "ok"]
                            ELSE IF x = "interrupted"
                                 THEN [fs EXCEPT ![P_gitdir] = "partial", ![P_gitexe] = "partial"]
                            ELSE fs
                   /\ CustomNodesReturn(FALSE)
                   /\ UNCHANGED <<git_exe, original_dir, loopVars>>
    /\ Log({"extract_git"})
    /\ UNCHANGED <<cfgVars, repos, files, cwd, installLocals, histVars>>

\* One iteration up to the chdir (286-301).
CloneBegin ==
    /\ pc = "clone_loop"
    /\ idx <= Len(custom_nodes_git_urls)
    /\ LET url == custom_nodes_git_urls[idx] IN
       IF RepoExists(fs, repos, RepoName(url))
         THEN /\ success_count' = SuccessCountAfter("exists", success_count)
              /\ outcomes' = Append(outcomes, [url |-> url, result |-> "exists"])
              /\ idx' = NextIndex("exists", idx, Len(custom_nodes_git_urls))
              /\ UNCHANGED <<cwd, pc>>
         ELSE /\ cwd' = custom_nodes_dir
              /\ pc' = "clone"
              /\ UNCHANGED loopVars
    /\ UNCHANGED <<cfgVars, diskVars, installLocals, cnLocals, resultVars, events,
                   histVars>>

\* The git subprocess and the chdir back (303-321): git clones, exits
\* non-zero (CalledProcessError), or cannot be run at all (any other error).
\* A portable git.exe that is not a complete installation does not run.
Clone ==
    /\ pc = "clone"
    /\ \E o \in Outcomes("custom_nodes", {"cloned", "git_failed", "error"}, {"cloned"}) :
         LET url == custom_nodes_git_urls[idx] IN
         /\ (git_exe = P_gitexe /\ fs[P_gitexe] # "ok") => o = "error"
         /\ repos' = (IF o = "cloned" THEN repos \cup {RepoName(url)} ELSE repos)
         /\ cwd' = CwdAfterClone(o, cwd, original_dir)
         /\ success_count' = SuccessCountAfter(o, success_count)
         /\ outcomes' = Append(outcomes, [url |-> url, result |-> o])
         /\ idx' = NextIndex(o, idx, Len(custom_nodes_git_urls))
    /\ pc' = "clone_loop"
    /\ Log({"clone"})
    /\ UNCHANGED <<cfgVars, fs, files, installLocals, cnLocals, resultVars,
                   histVars>>

\* The test before shutil.rmtree("git_portable") (325).
RemovesGitPortable_Never(git, exists) == FALSE

RemovesGitPortable(git, exists) == git # "git" /\ exists

\* After the loop (323-332): the portable git is removed and the stage
\* returns whether every URL succeeded.
CloneCleanup ==
    /\ pc = "clone_loop"
    /\ idx > Len(custom_nodes_git_urls)
    /\ \E rmOk \in Outcomes("custom_nodes", BOOLEAN, {TRUE}) :
         LET rm == RemovesGitPortable(git_exe, Exists(fs[P_gitdir])) IN
         /\ ~rm => rmOk
         /\ fs' = IF rm /\ rmOk
                    THEN [fs EXCEPT ![P_gitdir] = "absent", ![P_gitexe] = "absent"]
                    ELSE fs
         /\ rmFailed' = rmFailed \cup (IF rmOk THEN {} ELSE {P_gitdir})
    /\ CustomNodesReturn(success_count = Len(custom_nodes_git_urls))
    /\ Log({"cn_returned"})
    /\ UNCHANGED <<cfgVars, repos, files, cwd, installLocals, cnLocals, loopVars,
                   origin, created, lastDl, gitProbe, prev>>

\* ------------------------------------------------- download_models (335-362)
\* directory_mapping.get(directory, directory)
TargetDir_UnmappedToCheckpoints(directory) ==
    IF directory = "upscale_dir" THEN upscale_dir ELSE checkpoints_dir

TargetDir(directory) ==
    IF directory = "checkpoints_dir" THEN checkpoints_dir
    ELSE IF directory = "upscale_dir" THEN upscale_dir
    ELSE directory

\* main's list (385-399) and the stage's first lines (335-353).
DownloadModelsStart ==
    /\ pc = "download_models"
    /\ IF "models" \in chosen THEN UNCHANGED models ELSE models' \in ModelLists
    /\ chosen' = chosen \cup {"models"}
    /\ fs' = [fs EXCEPT ![checkpoints_dir] = "ok", ![upscale_dir] = "ok",
                        ![P_root] = IF Exists(@) THEN @ ELSE "partial"]
    /\ idx' = 1 /\ success_count' = 0
    /\ pc' = "models_loop"
    /\ events' = ({"md_mkdir"})
    \* download_custom_nodes's locals are gone, and its history with them
    /\ git_exe' = "none" /\ original_dir' = "none" /\ outcomes' = <<>>
    /\ origin' = NoOrigin /\ lastDl' = NoDl /\ rmFailed' = {}
    /\ UNCHANGED <<faulty, custom_nodes_git_urls, repos, files, cwd, installLocals,
                   resultVars, created, gitProbe, prev>>

\* One iteration (354-359).
ModelNext ==
    /\ pc = "models_loop"
    /\ idx <= Len(models)
    /\ \E o \in Outcomes("models", DownloadOutcomes, {"ok"}) :
         LET target_dir == TargetDir(models[idx].directory)
             key == <<target_dir, models[idx].filename>>
             r == DownloadFile(files[key], Exists(fs[target_dir]), o)
         IN  /\ files' = [files EXCEPT ![key] = r.st]
             /\ lastDl' = DlRecord(target_dir, files[key], Exists(fs[target_dir]), o, r)
             /\ Log({"asset"} \cup (IF r.net > 0 THEN {"net_asset"} ELSE {}))
             /\ success_count' = (IF r.ok THEN success_count + 1 ELSE success_count)
    /\ idx' = idx + 1
    /\ UNCHANGED <<cfgVars, fs, repos, cwd, pc, installLocals, cnLocals, outcomes,
                   resultVars, origin, created, rmFailed, gitProbe, prev>>

\* The stage's return (361-362) and the end of main (402-405).
ModelsReturn ==
    /\ pc = "models_loop"
    /\ idx > Len(models)
    /\ mdResult' = (IF success_count = Len(models) THEN "ok" ELSE "fail")
    /\ pc' = AfterModels(success_count = Len(models))
    /\ exitCode' = 0
    /\ UNCHANGED <<cfgVars, diskVars, cwd, installLocals, cnLocals, loopVars,
                   installResult, cnResult, events, histVars>>

\* ---------------------------------------------------------------- the runs
Terminated == pc \in {"done", "exit"}

\* The script is started again on the same machine, with the same lists, in
\* the same directory.
Rerun ==
    /\ Terminated
    /\ prev' = (IF pc = "done" /\ installResult = "ok" /\ cnResult = "ok" /\ mdResult = "ok"
                 THEN (IF gitProbe = "system" THEN "all_ok_system_git" ELSE "all_ok_own_git")
                 ELSE "other")
    /\ gitProbe' = "none"
    /\ pc' = "main"
    /\ curl_exe' = "none" /\ zip_exe' = "none" /\ git_exe' = "none"
    /\ original_dir' = "none"
    /\ idx' = 0 /\ success_count' = 0 /\ outcomes' = <<>>
    /\ archiveSize' = 0
    /\ installResult' = "none" /\ cnResult' = "none" /\ mdResult' = "none"
    /\ exitCode' = -1
    /\ events' = {}
    /\ origin' = NoOrigin
    /\ created' = {} /\ rmFailed' = {}
    /\ lastDl' = NoDl
    /\ UNCHANGED <<cfgVars, diskVars, cwd>>

Next ==
    \/ InstallCheck
    \/ SetupCurlProbe
    \/ SetupCurlDownload
    \/ SetupCurlExtract
    \/ Download7zip
    \/ GetRelease
    \/ DownloadArchive
    \/ ExtractArchive
    \/ DownloadCustomNodesStart
    \/ SetupGitProbe
    \/ GitRelease
    \/ GitDownload
    \/ GitExtract
    \/ CloneBegin
    \/ Clone
    \/ CloneCleanup
    \/ DownloadModelsStart
    \/ ModelNext
    \/ ModelsReturn
    \/ Rerun

Spec == Init /\ [][Next]_vars

\* The interpreter runs the script's next statement as long as the script
\* has not ended; every request and subprocess returns.  Whether the script
\* is started again is up to the user.
RunStep == ~Terminated /\ Next
FairSpec == Spec /\ WF_vars(RunStep)

\* ================================================================ the claims
InstallEvents ==
    {"install_skipped", "install_entered", "curl_probe", "net_curl", "extract_curl",
     "net_7zip", "net_release", "net_archive", "extract_archive"}
CustomNodeEvents ==
    {"cn_mkdir", "git_probe", "net_git_release", "net_git", "extract_git", "clone",
     "cn_returned"}
ModelEvents == {"md_mkdir", "asset", "net_asset"}
NetworkOrExtraction ==
    {"net_curl", "net_7zip", "net_release", "net_archive", "net_git_release", "net_git",
     "clone", "net_asset", "extract_curl", "extract_archive", "extract_git"}

\* install_comfyui has returned and main has not yet gone on.
InstallReturned == installResult # "none" /\ pc \in {"download_custom_nodes", "exit"}
\* download_custom_nodes has returned and main has not yet gone on.
CnReturned == cnResult # "none" /\ "cn_mkdir" \in events

\* ------------------------------------------------------------------------ C1
\* C1: a run ends with exit code 1 exactly when install_comfyui returned
\* failure; when it returned success the run ends with exit code 0 whatever
\* download_custom_nodes (git unresolved included) and download_models
\* returned.
C1_ExitCodeFollowsInstall ==
    /\ Terminated => (exitCode = 1 <=> installResult = "fail")
    /\ (Terminated /\ installResult = "ok") => (pc = "done" /\ exitCode = 0)
    /\ exitCode = 1 => installResult = "fail"

C1_Witness ==
    pc = "done" /\ installResult = "ok" /\ cnResult = "fail" /\ mdResult = "fail"
    /\ exitCode = 0

\* ------------------------------------------------------------------------ C2
\* C2: once install_comfyui has returned failure, whatever step failed, the
\* run is at its exit with code 1 and no operation of the custom-node stage
\* or of the model stage has been executed.
C2_FatalStopsTheRun ==
    installResult = "fail" =>
        /\ pc = "exit" /\ exitCode = 1
        /\ events \cap (CustomNodeEvents \cup ModelEvents) = {}
        /\ cnResult = "none" /\ mdResult = "none"

C2_Witness == installResult = "fail" /\ "extract_archive" \in events

\* ------------------------------------------------------------------------ C3
\* C3: a run that follows a run in which every stage succeeded, on the
\* filesystem that run left and with the same system tools, makes no network
\* request and no extraction.
SameGitAsBefore ==
    \/ prev = "all_ok_own_git" /\ gitProbe \in {"none", "no_system"}
    \/ prev = "all_ok_system_git" /\ gitProbe \in {"none", "system"}

C3_SecondRunDoesNoWork == SameGitAsBefore => events \cap NetworkOrExtraction = {}

\* ------------------------------------------------------------------------ C4
\* C4: the working directory is the directory the stage was entered in at
\* the start of every loop iteration and when download_custom_nodes returns,
\* after a skip, a clone, a git failure or any other error; it differs only
\* while the git subprocess runs.
C4_CwdRestored ==
    /\ pc # "clone" => cwd = "start_dir"
    /\ pc \in {"clone_loop", "clone"} => original_dir = "start_dir"
    /\ pc = "clone_loop" => cwd = original_dir

C4_Witness ==
    /\ pc = "clone_loop" /\ Len(outcomes) > 0
    /\ outcomes[Len(outcomes)].result = "error"
    /\ cwd = original_dir

\* ------------------------------------------------------------------------ C5
Succeeded == {k \in 1..Len(outcomes) : outcomes[k].result \in {"exists", "cloned"}}
FailedClones == {k \in 1..Len(outcomes) : outcomes[k].result \in {"git_failed", "error"}}
InInputOrder ==
    /\ Len(outcomes) <= Len(custom_nodes_git_urls)
    /\ \A k \in 1..Len(outcomes) : outcomes[k].url = custom_nodes_git_urls[k]
LoopResult ==
    /\ Len(outcomes) = Len(custom_nodes_git_urls)
    /\ InInputOrder
    /\ success_count = Cardinality(Succeeded)
    /\ cnResult = (IF FailedClones = {} THEN "ok" ELSE "fail")
    /\ Cardinality(FailedClones) = 1 =>
           (success_count = Len(custom_nodes_git_urls) - 1 /\ cnResult = "fail")

\* C5 as stated: whenever download_custom_nodes returns, every URL was
\* processed once in input order, the success count is the number of URLs
\* found present plus the number cloned, and the stage returns whether none
\* failed.
C5_Original == CnReturned => LoopResult

\* C5 as amended: the same, whenever download_custom_nodes has resolved git
\* (when setup_git fails the stage returns failure before any URL is looked
\* at); and while the loop runs the URLs before the current one, and only
\* they, have been processed, in input order, failures included.
C5_CloneIsolation ==
    /\ pc \in {"clone_loop", "clone"} =>
           /\ Len(outcomes) = idx - 1
           /\ InInputOrder
           /\ success_count = Cardinality(Succeeded)
    /\ (CnReturned /\ git_exe # "none") => LoopResult

C5_Witness ==
    /\ CnReturned /\ Len(custom_nodes_git_urls) = 2 /\ Len(outcomes) = 2
    /\ outcomes[1].result = "git_failed" /\ outcomes[2].result = "cloned"
    /\ success_count = 1 /\ cnResult = "fail"

\* ------------------------------------------------------------------------ C6
SmallArchive == archiveSize > 0 /\ archiveSize < MinArchiveSize
ExtractionReached == pc = "extract_archive" \/ "extract_archive" \in events

\* C6 as stated: when the downloaded archive is smaller than 1 MiB the file
\* is deleted, install_comfyui returns failure and the extraction is not
\* run; the extraction is only run on an archive of at least 1 MiB.
C6_Original ==
    /\ SmallArchive =>
           /\ fs[P_archive] = "absent"
           /\ installResult = "fail"
           /\ ~ExtractionReached
    /\ ExtractionReached => archiveSize >= MinArchiveSize

\* C6 as amended: the same, except that the file is deleted only if its
\* os.remove does not raise; when it raises the file stays and the stage
\* still returns failure without extracting.
C6_SizeGate ==
    /\ SmallArchive =>
           /\ (fs[P_archive] = "absent" \/ P_archive \in rmFailed)
           /\ installResult = "fail"
           /\ ~ExtractionReached
    /\ ExtractionReached => archiveSize >= MinArchiveSize

C6_Witness ==
    SmallArchive /\ fs[P_archive] = "absent" /\ installResult = "fail" /\ rmFailed = {}

\* ------------------------------------------------------------------------ C7
\* C7: when install_comfyui entered the installation and has returned, by
\* success or by any failure, and no removal raised, none of the transient
\* files it wrote in this run (the archive, 7zr.exe, a fresh curl.exe) is
\* left.
C7_TransientsRemoved ==
    (InstallReturned /\ "install_entered" \in events /\ rmFailed = {}) =>
        \A p \in created : fs[p] = "absent"

\* ------------------------------------------------------------------------ C8
\* C8: a download_file call whose destination existed returned success
\* without a network request and left the destination as it was; one whose
\* destination did not exist made exactly one retrieval attempt and returned
\* success exactly when the retrieval succeeded; a failed retrieval reaches
\* the caller as the value False.
C8_DownloadFile ==
    lastDl.path # "none" =>
        /\ lastDl.existed => (lastDl.ok /\ lastDl.net = 0 /\ ~lastDl.changed)
        /\ ~lastDl.existed => (lastDl.net = 1 /\ (lastDl.ok <=> lastDl.retrieved))

C8_Witness == lastDl.path = P_7z /\ lastDl.existed /\ lastDl.ok /\ lastDl.net = 0

\* ------------------------------------------------------------------------ C9
CachePaths == {P_7z, P_curl, P_gitexe, P_curlzip, P_gitinst}

\* C9: when a run has ended, none of the paths a later existence check
\* short-circuits on is the incomplete leftover of a failed acquisition.
C9_NoPartialCacheEntry == Terminated => \A p \in CachePaths : fs[p] # "partial"

\* ----------------------------------------------------------------------- C10
CurlOrder ==
    origin.curl # "none" =>
        /\ origin.curlSystem => origin.curl = "system"
        /\ (~origin.curlSystem /\ origin.curlCached) => origin.curl = "cached"
        /\ (~origin.curlSystem /\ ~origin.curlCached) => origin.curl = "fresh"
        /\ origin.curl \in {"system", "cached"} => events \cap {"net_curl", "extract_curl"} = {}
GitOrder ==
    origin.git # "none" =>
        /\ origin.gitSystem => origin.git = "system"
        /\ (~origin.gitSystem /\ origin.gitCached) => origin.git = "cached"
        /\ (~origin.gitSystem /\ ~origin.gitCached) => origin.git = "fresh"
        /\ origin.git \in {"system", "cached"} =>
               events \cap {"net_git_release", "net_git", "extract_git"} = {}

\* C10 as stated: each of curl, 7-Zip and git is the system's copy whenever
\* the system has one, else the cached copy whenever its path exists, and is
\* downloaded only when neither is the case.
C10_Original ==
    /\ CurlOrder
    /\ GitOrder
    /\ origin.zip # "none" =>
           /\ origin.zipSystem => origin.zip = "system"
           /\ (~origin.zipSystem /\ origin.zipCached) => origin.zip = "cached"
           /\ (~origin.zipSystem /\ ~origin.zipCached) => origin.zip \in {"fresh", "failed"}

\* C10 as amended: curl and git are resolved in that order; 7-Zip is never
\* looked for on the system: 7zr.exe in the current directory is used when
\* it exists, without a request, and is downloaded otherwise.
C10_ResolutionOrder ==
    /\ CurlOrder
    /\ GitOrder
    /\ origin.zip # "none" =>
           /\ origin.zip # "system"
           /\ origin.zipCached => (origin.zip = "cached" /\ "net_7zip" \notin events)
           /\ ~origin.zipCached => (origin.zip \in {"fresh", "failed"} /\ "net_7zip" \in events)

C10_Witness ==
    /\ origin.curlSystem /\ origin.curlCached /\ origin.curl = "system"
    /\ origin.zipSystem /\ origin.zipCached /\ origin.zip = "cached"

\* ----------------------------------------------------------------------- C11
\* The assets download_models has been through in this run.
ProcessedAssets == IF pc = "models_loop" THEN 1..(idx - 1) ELSE {}

\* C11: download_models hands every asset to download_file, whatever its
\* category: an asset whose category is a key of the mapping at
\* <mapped directory>/<filename>, an asset of any other category at
\* <the category string>/<filename>, and the download is attempted there.
C11_CategoryFallback ==
    (pc = "models_loop" /\ idx > 1) =>
        LET m == models[idx - 1] IN
        /\ "asset" \in events
        /\ m.directory = "checkpoints_dir" => lastDl.path = checkpoints_dir
        /\ m.directory = "upscale_dir" => lastDl.path = upscale_dir
        /\ m.directory \notin {"checkpoints_dir", "upscale_dir"} => lastDl.path = m.directory
        /\ (lastDl.existed \/ lastDl.net = 1)
        /\ lastDl.ok => Exists(files[<<lastDl.path, m.filename>>])

C11_Witness ==
    /\ pc = "models_loop" /\ idx > 1
    /\ models[idx - 1].directory = LiteralDir
    /\ lastDl.path = LiteralDir /\ lastDl.net = 1

\* ----------------------------------------------------------------------- C12
\* download_custom_nodes went through its loop and has returned.
ReturnedAfterLoop == "cn_returned" \in events

\* C12: when download_custom_nodes used a git that is not the system's and
\* has returned after the loop, git_portable is gone unless its removal
\* raised; the stage's result is what the success count says, whether or
\* not the removal raised; and no step of a stage that uses the system's
\* git changes git_portable.
C12_GitCleanup ==
    /\ [](ReturnedAfterLoop =>
            /\ (git_exe # "git" /\ P_gitdir \notin rmFailed) =>
                   (fs[P_gitdir] = "absent" /\ fs[P_gitexe] = "absent")
            /\ cnResult = (IF success_count = Len(custom_nodes_git_urls) THEN "ok" ELSE "fail"))
    /\ [][(git_exe = "git" \/ git_exe' = "git") =>
              (fs'[P_gitdir] = fs[P_gitdir] /\ fs'[P_gitexe] = fs[P_gitexe])]_vars

C12_Witness ==
    /\ ReturnedAfterLoop /\ git_exe = P_gitexe /\ origin.git = "fresh"
    /\ rmFailed = {} /\ fs[P_gitdir] = "absent"
    /\ cnResult = "ok" /\ Len(custom_nodes_git_urls) > 0

\* ----------------------------------------------------------------------- C13
CustomNodePcs ==
    {"setup_git", "git_release", "git_download", "git_extract", "clone_loop", "clone"}

\* C13: after install_comfyui returned success (the skip included) the
\* custom-node stage is next; the model stage runs only after the
\* custom-node stage has returned, and does run then whatever that stage
\* returned; the run ends only after the model stage has returned; and the
\* end is always reached.
C13_StageOrder ==
    /\ []((InstallReturned /\ installResult = "ok") => pc = "download_custom_nodes")
    /\ [](pc \in CustomNodePcs =>
             (installResult = "ok" /\ cnResult = "none" /\ mdResult = "none"
              /\ events \cap ModelEvents = {}))
    /\ [](cnResult # "none" => pc \in {"download_models", "models_loop", "done"})
    /\ [](events \cap ModelEvents # {} => (installResult = "ok" /\ cnResult # "none"))
    /\ [](pc = "done" => (cnResult # "none" /\ mdResult # "none"))
    /\ ((InstallReturned /\ installResult = "ok") ~> pc = "done")

C13_Witness ==
    /\ pc = "done" /\ cnResult = "fail" /\ mdResult = "ok"
    /\ Len(custom_nodes_git_urls) > 0 /\ Len(models) > 0

\* ----------------------------------------------------------------------- C14
\* C14: when the installation root exists as install_comfyui is called, the
\* stage returns success and does nothing else: no tool is resolved, no
\* request made, nothing extracted, and the filesystem is as it was (a
\* curl.exe or 7zr.exe that is there stays).
C14_MainStageSkip ==
    /\ [][(pc = "main" /\ Exists(fs[P_root])) =>
              /\ installResult' = "ok" /\ pc' = "download_custom_nodes"
              /\ fs' = fs /\ repos' = repos /\ files' = files /\ cwd' = cwd
              /\ events' = {"install_skipped"}
              /\ origin' = origin /\ created' = created]_vars
    /\ [](("install_skipped" \in events) =>
              /\ installResult = "ok"
              /\ events = {"install_skipped"}
              /\ created = {} /\ origin = NoOrigin /\ lastDl = NoDl)

C14_Witness ==
    /\ "install_skipped" \in events /\ installResult = "ok"
    /\ fs[P_curl] = "ok" /\ fs[P_7z] = "ok"

\* ----------------------------------------------------------------------- C15
\* C15: the directory every processed asset was to be written to existed
\* when the asset was handed to download_file (download_models creates and
\* removes no directory inside its loop).
C15_DestinationDirExists ==
    \A k \in ProcessedAssets : Exists(fs[TargetDir(models[k].directory)])

\* ----------------------------------------------------------------------- C16
\* C16: a curl.exe that was there when install_comfyui resolved curl (the
\* system's curl or that cached copy was used, never a fresh download) is
\* still there when install_comfyui has returned, by success or by failure.
C16_CachedCurlKept ==
    (InstallReturned /\ origin.curl \in {"system", "cached"} /\ origin.curlCached) =>
        Exists(fs[P_curl])

\* ----------------------------------------------------------------------- C17
\* seg without a '.git' at its end.
StripGitSuffix(seg) ==
    IF Len(seg) > 0 /\ seg[Len(seg)] = ".git" THEN SubSeq(seg, 1, Len(seg) - 1) ELSE seg

\* C17: for every URL the loop has been through, the name the directory was
\* looked up and cloned under is the URL's last segment less a trailing
\* '.git', and is not empty, so that no URL was found present by a look at
\* custom_nodes itself.
C17_RepoNameDerivation ==
    \A k \in 1..Len(outcomes) :
        LET url == outcomes[k].url IN
        /\ RepoName(url) = StripGitSuffix(url[Len(url)])
        /\ RepoName(url) # <<>>
        /\ outcomes[k].result = "cloned" => StripGitSuffix(url[Len(url)]) \in repos

\* ----------------------------------------------------------------------- C18
\* C18: when download_custom_nodes has returned 'all succeeded', the path
\* custom_nodes/<derived name> of every URL exists (for an empty name that
\* path is custom_nodes); when download_models has returned 'all succeeded',
\* the file of every asset exists; and inside both loops the success count
\* is at least 0 and at most the number of items gone through, which is at
\* most the number of items configured.
C18_StagePostconditions ==
    /\ (CnReturned /\ cnResult = "ok") =>
           \A k \in 1..Len(custom_nodes_git_urls) :
               RepoExists(fs, repos, RepoName(custom_nodes_git_urls[k]))
    /\ (pc = "done" /\ mdResult = "ok") =>
           \A k \in 1..Len(models) :
               Exists(files[<<TargetDir(models[k].directory), models[k].filename>>])
    /\ pc \in {"clone_loop", "clone"} =>
           (0 <= success_count /\ success_count <= idx - 1
            /\ idx - 1 <= Len(custom_nodes_git_urls))
    /\ pc = "models_loop" =>
           (0 <= success_count /\ success_count <= idx - 1 /\ idx - 1 <= Len(models))

C18_Witness ==
    /\ pc = "done" /\ cnResult = "ok" /\ mdResult = "ok"
    /\ Len(custom_nodes_git_urls) > 1 /\ Len(models) > 1
    /\ Cardinality(repos) > 0

\* ----------------------------------------------------------------------- C19
\* C19: a setup_curl that downloads and extracts curl leaves the user's
\* directory, which it neither downloaded nor extracted, as it was.
C19_SetupCurlFrame ==
    [][pc = "curl_extract" => fs'[P_userdir] = fs[P_userdir]]_vars

\* ----------------------------------------------------------------------- C20
\* C20: when install_comfyui has returned failure, the installation root
\* does not exist, so that the next run's test of line 190 cannot find it.
C20_NoFalseAlreadyInstalled ==
    installResult = "fail" => ~AlreadyInstalled(fs[P_root])

====
